---------------------------- MODULE Spec2Model ----------------------------
(***************************************************************************)
(* A model of the Little Kitty, Big City auto splitter: the main loop of   *)
(* src/src/lib.rs (attach, per-tick update of the watchers, the decision   *)
(* functions and the calls made to the timer), CSharpList::iter of         *)
(* src/src/csharp.rs, SceneManager of src/src/scene_manager.rs and the     *)
(* pointer path of the mono module.                                        *)
(*                                                                         *)
(* Option<T> is a sequence of length at most one: <<>> is None and <<v>>   *)
(* is Some(v).                                                             *)
(***************************************************************************)
EXTENDS Integers, Sequences, FiniteSets, TLC

VARIABLES
    phase,          \* "detached": retrying Process::attach; "attached": inside until_closes;
                    \* "aborted": a tick panicked, the loop is gone
    settings,       \* the Settings struct: the set of toggles that are true
    watchers,       \* the Watchers struct of the current session
    mem,            \* what the remote reads of the last tick returned (<<>> before the first tick)
    timer_state,    \* the host timer's TimerState
    calls,          \* the timer functions invoked by the last tick, in order
    fed,            \* the values the last tick supplied to the boolean watchers (<<>> before the first tick)
    fed_old,        \* the values the tick before supplied (<<>> if there was none in this session)
    list_in,        \* CSharpList::iter on its own: the remote image the list is read from
    list_out,       \* CSharpList::iter on its own: what the iterator yielded (<<>> before the call)
    process,        \* the game process the loop is attached to (<<>> while detached)
    memory,         \* the Memory struct of the current session (<<>> while detached)
    unity,          \* SceneManager on its own: the remote image of UnityPlayer.dll and of the scene
    scene_manager,  \* SceneManager on its own: what SceneManager::attach returned (<<>> before the call)
    scene_path,     \* SceneManager on its own: what the last scene query returned (<<>> before one)
    heap,           \* UnityPointer on its own: the object graph the game holds
    unity_pointer,  \* UnityPointer on its own: the cached chain of offsets (<<>> until resolved)
    deref_out,      \* UnityPointer on its own: what the last deref returned (<<>> once the game moved on)
    walked          \* UnityPointer on its own: the addresses the last two derefs read through

\* the state of the pointer path checked on its own
pathvars == <<heap, unity_pointer, deref_out, walked>>

\* the state of the functions checked on their own
aside == <<list_in, list_out, unity, scene_manager, scene_path, pathvars>>

vars == <<phase, settings, watchers, mem, timer_state, calls, fed, fed_old, list_in, list_out,
          process, memory, unity, scene_manager, scene_path, heap, unity_pointer, deref_out,
          walked>>

None == <<>>
Some(v) == <<v>>

---------------------------------------------------------------------------
(* Settings (lib.rs 128-312): the #[default = true] toggles.               *)

QuestToggles ==
    {"find_crow", "bring_crow_25_shinies", "become_artist", "catch_a_bird", "help_mayor",
     "rescue_tanuki", "reunite_the_family", "fetch_3_feathers", "pose_for_beetle",
     "fetch_dog_balls", "find_chameleon_1", "find_chameleon_2", "find_chameleon_3",
     "find_chameleon_4", "find_chameleon_5", "find_chameleon_6", "find_chameleon_7",
     "find_chameleon_8", "steal_lunch", "catch_yellow_bird", "sunbeam"}

CatchievementToggles ==
    {"hello_everyone", "quack_troops", "snap_happy", "capped_crusader", "world_traveler",
     "cat_napper", "bird_botherer", "if_i_fits_i_sits", "litter_picker", "smash_hit",
     "sticky_business", "give_a_dog_a_bone", "cult_of_purrsonality", "local_celebrity",
     "papa_cat_zi", "cat_like_reflexes", "back_of_the_net", "surprise", "fruit_fall",
     "industrial_artist", "checkmate", "to_me_to_you", "no_parking", "rub_a_dub_dub",
     "and_stay_out", "killer_kitty", "who_needs_cash", "little_kitty_big_city",
     "cant_stop_the_feelings", "what_sweet_music", "trip_hazard", "splish",
     "decluttering", "dumpster_diving"}

\* Settings::register(): every toggle at its default
DefaultSettings == {"start", "eat_fish", "got_home"} \cup QuestToggles

---------------------------------------------------------------------------
(* asr::watcher::Watcher<T> { pair: Option<Pair<T>> }                     *)

\* Watchers::default()
DefaultWatchers ==
    [start_trigger |-> None, end_trigger |-> None, is_loading |-> None,
     quest_list |-> None, quest_secondary_list |-> None,
     is_post_eating |-> None, allow_player_shake |-> None]

\* Watcher::update_infallible: shifts current into old and installs value
update_infallible(w, value) ==
    IF w = None
    THEN Some([old |-> value, current |-> value])
    ELSE Some([old |-> w[1].current, current |-> value])

\* Pair::changed_to
changed_to(pair, value) == pair.old # pair.current /\ pair.current = value

\* a level test in place of the edge test: val.current == value
PairIsNow(w, value) == w # None /\ w[1].current = value

\* watcher.pair.is_some_and(|val| val.changed_to(&true))
PairChangedTo(w, value) == w # None /\ changed_to(w[1], value)

\* the byte is compared with 1
FlagIsOne(read) == read # None /\ read[1] = 1

\* deref::<u8>(..).is_some_and(|val| val != 0)
FlagIsSet(read) == read # None /\ read[1] # 0

\* asr::game_engine::unity::get_scene_name: the file name of the scene path,
\* without its directory and its extension
get_scene_name(path) == path.name

---------------------------------------------------------------------------
(* CSharpList<T>::iter (csharp.rs 26-50).                                  *)
(*                                                                         *)
(* The remote image a list is read from:                                   *)
(*   header  Option<[data_pointer, count]>: the outcome of reading the     *)
(*           0x1C header bytes at the list's address; data_pointer is      *)
(*           "null", "array" (the address of the element array) or         *)
(*           "unmapped" (an address no read succeeds at);                  *)
(*   arr     the readable pointer slots at data_pointer + 0x20;            *)
(*   objects for each non-null element address, the outcome of reading     *)
(*           the record at it (None: the read fails).                      *)
(* An element address is 0 (null) or 1..MaxObjects.                        *)

MaxObjects == 2     \* element addresses of the model
MaxCount == 4       \* the largest element count a header holds in the model

\* process.read_vec::<Address64>(data_pointer + 0x20, count)
read_vec(img, data_pointer, count) ==
    IF data_pointer = "array" /\ count <= Len(img.arr)
    THEN Some(SubSeq(img.arr, 1, count))
    ELSE None

\* process.read::<T>(address)
read(img, address) ==
    IF address \in DOMAIN img.objects THEN img.objects[address] ELSE None

\* the first failed element read ends the iteration: the later slots are lost
RECURSIVE filter_map_abort(_, _, _, _)
filter_map_abort(img, elements, val, count) ==
    IF val >= count THEN <<>>
    ELSE LET item == IF elements = None THEN None ELSE read(img, elements[1][val + 1])
         IN  IF item = None THEN <<>>
             ELSE item \o filter_map_abort(img, elements, val + 1, count)

\* (val..count).filter_map(|val| elements.as_ref().and_then(|e| process.read(e[val]).ok()))
RECURSIVE filter_map(_, _, _, _)
filter_map(img, elements, val, count) ==
    IF val >= count THEN <<>>
    ELSE LET item == IF elements = None THEN None ELSE read(img, elements[1][val + 1])
         IN  item \o filter_map(img, elements, val + 1, count)

\* reads the slots one by one instead of with one read_vec: the slots past the
\* readable part of the array fail alone
RECURSIVE slotwise(_, _, _)
slotwise(img, val, count) ==
    IF val >= count THEN <<>>
    ELSE (IF val + 1 <= Len(img.arr) THEN read(img, img.arr[val + 1]) ELSE None)
         \o slotwise(img, val + 1, count)

iter_slotwise(img) ==
    IF img.header = None \/ img.header[1].data_pointer # "array" THEN <<>>
    ELSE slotwise(img, 0, img.header[1].count)

iter(img) ==
    LET raw_data == img.header
        data_pointer ==
            IF raw_data # None /\ raw_data[1].data_pointer # "null"
            THEN Some(raw_data[1].data_pointer) ELSE None
        count ==
            IF raw_data # None /\ raw_data[1].count # 0
            THEN Some(raw_data[1].count) ELSE None
        elements ==
            IF data_pointer # None /\ count # None
            THEN read_vec(img, data_pointer[1], count[1])
            ELSE None
    IN  filter_map(img, elements, 0, IF count = None THEN 0 ELSE count[1])

---------------------------------------------------------------------------
(* SceneManager (scene_manager.rs).                                        *)
(*                                                                         *)
(* The remote image the scene manager is looked up in:                     *)
(*   module     is UnityPlayer.dll loaded and its image size readable;     *)
(*   machine    the outcome of pe::MachineType::read;                      *)
(*   matches    for each signature, the addresses of the module range it   *)
(*              matches at;                                                *)
(*   unreadable the addresses of the module no read succeeds at;           *)
(*   manager    the outcome of reading the pointer at the base address:    *)
(*              "fail", "null" or "ok";                                    *)
(*   active     the outcome of reading the active-scene pointer: "fail",   *)
(*              "null" or "ok";                                            *)
(*   path       the outcome of reading the scene's path.                   *)
(*   stored     the four bytes the module holds at some addresses.         *)
(* At every other address x the module holds the operand OperandAt(x); the *)
(* pointer stored at a readable base address b is PointerAt(b).            *)

Signatures64 == <<"SIG_64_BIT">>
Signatures32 == <<"SIG_32_1", "SIG_32_2", "SIG_32_3">>

OperandAt(x) == 100 * x
PointerAt(b) == b + 1

NoUnity ==
    [module |-> FALSE, machine |-> None,
     matches |-> [g \in {"SIG_64_BIT", "SIG_32_1", "SIG_32_2", "SIG_32_3"} |-> {}],
     unreadable |-> {}, manager |-> "fail", active |-> "fail", path |-> None,
     stored |-> <<>>]

\* Signature::scan_process_range: the first match in the range
scan_process_range(img, sig) ==
    IF img.matches[sig] = {} THEN None
    ELSE Some(CHOOSE a \in img.matches[sig] : \A b \in img.matches[sig] : a <= b)

\* process.read::<Address32>(x)
read_operand(img, x) ==
    IF x \in img.unreadable THEN None ELSE Some(OperandAt(x))

\* the four bytes of the module at address x, lowest first
BytesAt(img, x) ==
    IF x \in DOMAIN img.stored THEN img.stored[x]
    ELSE LET v == OperandAt(x)
         IN  <<v % 256, (v \div 256) % 256, (v \div 65536) % 256, (v \div 16777216) % 256>>

\* i32 from its little-endian bytes: the top bit of the last byte is the sign
i32_from_le_bytes(b) ==
    b[1] + 256 * b[2] + 65536 * b[3]
    + 16777216 * (IF b[4] >= 128 THEN b[4] - 256 ELSE b[4])

\* process.read::<i32>(x)
read_i32(img, x) ==
    IF x \in img.unreadable THEN None ELSE Some(i32_from_le_bytes(BytesAt(img, x)))

\* Offsets::new
Offsets_new(pointer_size) ==
    IF pointer_size = "Bit64"
    THEN [active_scene |-> 72, asset_path |-> 16]
    ELSE [active_scene |-> 40, asset_path |-> 12]

\* the address the 32-bit signature sig holds its operand at, from its match
Operand32(sig, addr) ==
    CASE sig = "SIG_32_1" -> addr + 5
      [] sig = "SIG_32_2" -> addr - 4
      [] sig = "SIG_32_3" -> addr + 7

\* the else-if chain of attach over the signatures sigs[k..]: the first one that
\* matches decides, a failed read of its operand ends attach
RECURSIVE base_address_32(_, _, _)
base_address_32(img, sigs, k) ==
    IF k > Len(sigs) THEN None
    ELSE LET addr == scan_process_range(img, sigs[k])
         IN  IF addr # None THEN read_operand(img, Operand32(sigs[k], addr[1]))
             ELSE base_address_32(img, sigs, k + 1)

\* the displacement is added to the address it is stored at: the four bytes
\* that end the instruction are left out
base_address_64_short(img) ==
    LET scan == scan_process_range(img, "SIG_64_BIT")
    IN  IF scan = None THEN None
        ELSE LET addr == scan[1] + 7
                 disp == read_i32(img, addr)
             IN  IF disp = None THEN None ELSE Some(addr + disp[1])

\* let addr = SIG_64_BIT.scan(..)? + 7; addr + 0x4 + read::<i32>(addr).ok()?
base_address_64(img) ==
    LET scan == scan_process_range(img, "SIG_64_BIT")
    IN  IF scan = None THEN None
        ELSE LET addr == scan[1] + 7
                 disp == read_i32(img, addr)
             IN  IF disp = None THEN None ELSE Some(addr + 4 + disp[1])

\* process.read_pointer(address, pointer_size) at the base address
read_manager(img, base_address) ==
    CASE img.manager = "fail" -> None
      [] img.manager = "null" -> Some(0)
      [] img.manager = "ok" -> Some(PointerAt(base_address))

\* the signatures are tried in another order: SIG_32_2 first
SceneManager_attach_reordered(img) ==
    IF ~img.module \/ img.machine = None THEN None
    ELSE LET pointer_size == IF img.machine[1] = "X86_64" THEN "Bit64" ELSE "Bit32"
             base_address ==
                 IF pointer_size = "Bit64" THEN base_address_64(img)
                 ELSE base_address_32(img, <<"SIG_32_2", "SIG_32_1", "SIG_32_3">>, 1)
         IN  IF base_address = None THEN None
             ELSE LET address == read_manager(img, base_address[1])
                  IN  IF address = None \/ address = Some(0) THEN None
                      ELSE Some([pointer_size |-> pointer_size, address |-> address[1],
                                 offsets |-> Offsets_new(pointer_size)])

\* the pointer read at the base address is kept without the null test
SceneManager_attach_unfiltered(img) ==
    IF ~img.module \/ img.machine = None THEN None
    ELSE LET pointer_size == IF img.machine[1] = "X86_64" THEN "Bit64" ELSE "Bit32"
             base_address ==
                 IF pointer_size = "Bit64" THEN base_address_64(img)
                 ELSE base_address_32(img, Signatures32, 1)
         IN  IF base_address = None THEN None
             ELSE LET address == read_manager(img, base_address[1])
                  IN  IF address = None THEN None
                      ELSE Some([pointer_size |-> pointer_size, address |-> address[1],
                                 offsets |-> Offsets_new(pointer_size)])

\* SceneManager::attach
SceneManager_attach(img) ==
    IF ~img.module \/ img.machine = None THEN None
    ELSE LET pointer_size == IF img.machine[1] = "X86_64" THEN "Bit64" ELSE "Bit32"
             base_address ==
                 IF pointer_size = "Bit64" THEN base_address_64(img)
                 ELSE base_address_32(img, Signatures32, 1)
         IN  IF base_address = None THEN None
             ELSE LET address == read_manager(img, base_address[1])
                  IN  IF address = None \/ address = Some(0) THEN None
                      ELSE Some([pointer_size |-> pointer_size, address |-> address[1],
                                 offsets |-> Offsets_new(pointer_size)])

\* SceneManager::get_current_scene: read_pointer(self.address + offsets.active_scene),
\* filtered for null
get_current_scene(sm, img) ==
    CASE img.active = "fail" -> None
      [] img.active = "null" -> None
      [] img.active = "ok" -> Some([address |-> PointerAt(sm.address + sm.offsets.active_scene)])

\* Scene::path: read_pointer_path(self.address, pointer_size, [asset_path, 0x0])
Scene_path(scene, img, sm) == img.path

\* SceneManager::get_current_scene_path
get_current_scene_path(sm, img) ==
    LET scene == get_current_scene(sm, img)
    IN  IF scene = None THEN None ELSE Scene_path(scene[1], img, sm)

---------------------------------------------------------------------------
(* mono::UnityPointer: the pointer path of the spec (4.3), over a 3-level  *)
(* object graph: the static slot of the root class holds a collection,     *)
(* element PathIndex of the collection holds an object, the object holds   *)
(* the leaf.                                                               *)
(*                                                                         *)
(* heap: root  what the static slot holds: <<>> (unreadable), 0 (null) or  *)
(*             the address of a collection;                                *)
(*       coll  for each address a collection can lie at, what its element  *)
(*             PathIndex holds: 0 or the address of an object;             *)
(*       leaf  for each address an object can lie at, the value of its     *)
(*             field.                                                      *)
(* A relocated collection or object leaves its old bytes behind.           *)

CollAddrs == {10, 20}
ObjAddrs == {30, 40}

\* the declarative path: root class, static field, ordered segments
Path == [root_class |-> "Root", static_field |-> "_instance", segments |-> <<"items", "1", "value">>]

\* the address of the static storage of the root class
StaticBase == 1

\* the reflection oracle: the byte offset of a field of a class, and the offset
\* of the N-th element of a collection
FieldOffset(field) ==
    CASE field = "items" -> 2
      [] field = "value" -> 1
ElementOffset(n) == 4 + n

\* a segment that parses as a non-negative integer is a collection index
ParseIndex(segment) ==
    LET numerals == ("0" :> 0) @@ ("1" :> 1) @@ ("2" :> 2)
    IN  IF segment \in DOMAIN numerals THEN Some(numerals[segment]) ELSE None

\* the collection index of the path
PathIndex == ParseIndex(Path.segments[2])[1]

NoHeap == [root |-> None, coll |-> [c \in CollAddrs |-> 0], leaf |-> [b \in ObjAddrs |-> 0]]
NoWalks == [old |-> <<>>, current |-> <<>>]

\* the flat memory of the game: what a read at address returns
ReadCell(h, address) ==
    IF address = StaticBase + FieldOffset("items") THEN h.root
    ELSE IF \E c \in CollAddrs : address = c + ElementOffset(PathIndex)
         THEN Some(h.coll[address - ElementOffset(PathIndex)])
    ELSE IF \E b \in ObjAddrs : address = b + FieldOffset("value")
         THEN Some(h.leaf[address - FieldOffset("value")])
    ELSE None

\* first resolution: every segment to a byte offset, a number being the N-th
\* element of a collection; nothing is kept when a lookup fails
resolve(path, oracle_ok) ==
    IF ~oracle_ok THEN None
    ELSE Some([k \in 1..Len(path.segments) |->
                 IF ParseIndex(path.segments[k]) # None
                 THEN ElementOffset(ParseIndex(path.segments[k])[1])
                 ELSE FieldOffset(path.segments[k])])

\* the walk leaves out the collection index: the field is read from the collection
RECURSIVE walk_short(_, _, _, _)
walk_short(h, cur, offsets, k) ==
    IF k = Len(offsets) THEN ReadCell(h, cur + offsets[k])
    ELSE LET p == ReadCell(h, cur + offsets[k])
         IN  IF p = None \/ p = Some(0) THEN None
             ELSE walk_short(h, p[1], offsets, IF k = 1 THEN k + 2 ELSE k + 1)

\* the walk from cur over offsets[k..]: a pointer is read at every offset but the
\* last, where the value is read; a null or unreadable pointer ends it with an error
RECURSIVE walk(_, _, _, _)
walk(h, cur, offsets, k) ==
    IF k = Len(offsets) THEN ReadCell(h, cur + offsets[k])
    ELSE LET p == ReadCell(h, cur + offsets[k])
         IN  IF p = None \/ p = Some(0) THEN None
             ELSE walk(h, p[1], offsets, k + 1)

\* the addresses the walk reads at
RECURSIVE trail(_, _, _, _)
trail(h, cur, offsets, k) ==
    IF k = Len(offsets) THEN <<cur + offsets[k]>>
    ELSE LET p == ReadCell(h, cur + offsets[k])
         IN  <<cur + offsets[k]>>
             \o (IF p = None \/ p = Some(0) THEN <<>> ELSE trail(h, p[1], offsets, k + 1))

---------------------------------------------------------------------------
(* QuestData and update_loop (lib.rs 404-487, 638-642).                    *)

\* item -> QuestData { quest_id: the u32 at offset_achievement_id,
\*                     complete: item[offset_achievement_completed] != 0 }
QuestDataOf(item) == [quest_id |-> item.id, complete |-> item.completed # 0]

\* deref::<CSharpList<..>>(..).map(|list| list.iter(game)).map(|data| data.map(..)),
\* then Some(x) => x.collect(), _ => Vec::with_capacity(0)
read_quests(deref) ==
    IF deref = None THEN <<>>
    ELSE LET items == iter(deref[1])
         IN  [k \in 1..Len(items) |-> QuestDataOf(items[k])]

\* the size of the record read per element: CSharpList<[u8; 0x68]>
RecordSize == 104

\* Memory::init: the scene manager found in the process and the field offsets
\* the Mono class of Achievement gives
Memory_init(p) ==
    [scene_manager |-> p.scene_manager,
     offset_achievement_id |-> p.achievement.id,
     offset_achievement_completed |-> p.achievement.completed]

\* item[memory.offset_achievement_completed]: the index is checked, so the first
\* element read panics when the offset is not inside the record
Panics(mm, m) ==
    /\ mm.offset_achievement_completed >= RecordSize
    /\ \/ read_quests(m.quest_list) # <<>>
       \/ read_quests(m.quest_secondary_list) # <<>>

\* *(item.as_ptr().byte_add(offset_achievement_id) as *const u32): unchecked. Inside
\* the record it reads the id ("id"); past it the read traps or yields what lies
\* behind the record
PastRecord(mm, m) ==
    IF /\ mm.offset_achievement_id + 4 > RecordSize
       /\ \/ read_quests(m.quest_list) # <<>>
          \/ read_quests(m.quest_secondary_list) # <<>>
    THEN {<<"trap">>, <<"garbage", 0>>, <<"garbage", 32>>}
    ELSE {<<"id">>}

\* the list images with the id of every element replaced by what the id read gave
GarbledList(deref, ub) ==
    IF deref = None \/ ub[1] = "id" THEN deref
    ELSE Some([deref[1] EXCEPT !.objects =
                  [a \in DOMAIN deref[1].objects |->
                      IF deref[1].objects[a] = None THEN None
                      ELSE Some([deref[1].objects[a][1] EXCEPT !.id = ub[2]])]])

Garbled(m, ub) ==
    [m EXCEPT !.quest_list = GarbledList(m.quest_list, ub),
              !.quest_secondary_list = GarbledList(m.quest_secondary_list, ub)]

\* is_none_or in place of is_some_and: an unreadable scene passes the test
SceneIs_none_or(current_scene, names) ==
    current_scene = None \/ get_scene_name(current_scene[1]) \in names

SceneIs(current_scene, names) ==
    current_scene # None /\ get_scene_name(current_scene[1]) \in names

\* a read of the post-eating or of the end flag that fails leaves its watcher
\* the value it holds
Supplied_kept(m, w) ==
    LET shake == update_infallible(w.allow_player_shake, FlagIsSet(m.allow_shake))
        kept(byte, x) == IF byte = None THEN PairIsNow(w[x], TRUE) ELSE FlagIsSet(byte)
    IN  [is_post_eating |-> kept(m.post_eat, "is_post_eating"),
         allow_player_shake |-> FlagIsSet(m.allow_shake),
         start_trigger |-> SceneIs(m.scene, {"Level_X"}) /\ PairChangedTo(shake, TRUE),
         end_trigger |-> kept(m.is_outro, "end_trigger"),
         is_loading |-> \/ SceneIs(m.scene, {"Loading", "MainMenu_LKBC"})
                        \/ FlagIsSet(m.is_loading_save)
                        \/ FlagIsSet(m.is_teleporting)]

\* start_trigger is fed the value of the shake flag, not its change
Supplied_held(m, w) ==
    [is_post_eating |-> FlagIsSet(m.post_eat),
     allow_player_shake |-> FlagIsSet(m.allow_shake),
     start_trigger |-> SceneIs(m.scene, {"Level_X"}) /\ FlagIsSet(m.allow_shake),
     end_trigger |-> FlagIsSet(m.is_outro),
     is_loading |-> \/ SceneIs(m.scene, {"Loading", "MainMenu_LKBC"})
                    \/ FlagIsSet(m.is_loading_save)
                    \/ FlagIsSet(m.is_teleporting)]

\* start_trigger reads the allow_player_shake watcher before its update
Supplied_stale(m, w) ==
    [is_post_eating |-> FlagIsSet(m.post_eat),
     allow_player_shake |-> FlagIsSet(m.allow_shake),
     start_trigger |-> SceneIs(m.scene, {"Level_X"})
                       /\ PairChangedTo(w.allow_player_shake, TRUE),
     end_trigger |-> FlagIsSet(m.is_outro),
     is_loading |-> \/ SceneIs(m.scene, {"Loading", "MainMenu_LKBC"})
                    \/ FlagIsSet(m.is_loading_save)
                    \/ FlagIsSet(m.is_teleporting)]

\* the values update_loop supplies to the boolean watchers; start_trigger reads
\* the allow_player_shake watcher after its update
Supplied(m, w) ==
    LET shake == update_infallible(w.allow_player_shake, FlagIsSet(m.allow_shake))
    IN  [is_post_eating |-> FlagIsSet(m.post_eat),
         allow_player_shake |-> FlagIsSet(m.allow_shake),
         start_trigger |-> SceneIs(m.scene, {"Level_X"}) /\ PairChangedTo(shake, TRUE),
         end_trigger |-> FlagIsSet(m.is_outro),
         is_loading |-> \/ SceneIs(m.scene, {"Loading", "MainMenu_LKBC"})
                        \/ FlagIsSet(m.is_loading_save)
                        \/ FlagIsSet(m.is_teleporting)]

\* the is_post_eating watcher is fed the allow_player_shake flag
update_loop_crossed(m, w) ==
    LET v == Supplied(m, w)
    IN  [is_post_eating |-> update_infallible(w.is_post_eating, v.allow_player_shake),
         allow_player_shake |-> update_infallible(w.allow_player_shake, v.allow_player_shake),
         start_trigger |-> update_infallible(w.start_trigger, v.start_trigger),
         end_trigger |-> update_infallible(w.end_trigger, v.end_trigger),
         is_loading |-> update_infallible(w.is_loading, v.is_loading),
         quest_list |-> update_infallible(w.quest_list, read_quests(m.quest_list)),
         quest_secondary_list |->
             update_infallible(w.quest_secondary_list, read_quests(m.quest_secondary_list))]

update_loop(m, w) ==
    LET v == Supplied(m, w)
    IN  [is_post_eating |-> update_infallible(w.is_post_eating, v.is_post_eating),
         allow_player_shake |-> update_infallible(w.allow_player_shake, v.allow_player_shake),
         start_trigger |-> update_infallible(w.start_trigger, v.start_trigger),
         end_trigger |-> update_infallible(w.end_trigger, v.end_trigger),
         is_loading |-> update_infallible(w.is_loading, v.is_loading),
         quest_list |-> update_infallible(w.quest_list, read_quests(m.quest_list)),
         quest_secondary_list |->
             update_infallible(w.quest_secondary_list, read_quests(m.quest_secondary_list))]

---------------------------------------------------------------------------
(* The decision functions (lib.rs 489-636).                                *)

start(w, s) == "start" \in s /\ PairChangedTo(w.start_trigger, TRUE)

\* match quest_id { .. } of the primary list (lib.rs 511-534)
PrimaryTable ==
    (8 :> "catch_a_bird") @@ (12 :> "fetch_dog_balls") @@ (19 :> "bring_crow_25_shinies") @@
    (21 :> "rescue_tanuki") @@ (24 :> "fetch_3_feathers") @@ (28 :> "reunite_the_family") @@
    (29 :> "help_mayor") @@ (32 :> "find_crow") @@ (34 :> "become_artist") @@
    (36 :> "find_chameleon_1") @@ (37 :> "find_chameleon_2") @@ (38 :> "find_chameleon_3") @@
    (39 :> "sunbeam") @@ (49 :> "pose_for_beetle") @@ (41 :> "find_chameleon_4") @@
    (42 :> "find_chameleon_5") @@ (43 :> "find_chameleon_6") @@ (44 :> "find_chameleon_7") @@
    (45 :> "find_chameleon_8") @@ (47 :> "steal_lunch") @@ (56 :> "catch_yellow_bird")

\* match quest_id { .. } of the secondary list (lib.rs 561-597)
SecondaryTable ==
    (1 :> "hello_everyone") @@ (2 :> "quack_troops") @@ (3 :> "snap_happy") @@
    (7 :> "capped_crusader") @@ (8 :> "world_traveler") @@ (9 :> "cat_napper") @@
    (10 :> "bird_botherer") @@ (11 :> "if_i_fits_i_sits") @@ (12 :> "litter_picker") @@
    (13 :> "smash_hit") @@ (14 :> "sticky_business") @@ (15 :> "give_a_dog_a_bone") @@
    (16 :> "cult_of_purrsonality") @@ (17 :> "local_celebrity") @@ (19 :> "papa_cat_zi") @@
    (23 :> "cat_like_reflexes") @@ (24 :> "back_of_the_net") @@ (26 :> "surprise") @@
    (27 :> "fruit_fall") @@ (30 :> "industrial_artist") @@ (31 :> "checkmate") @@
    (32 :> "to_me_to_you") @@ (33 :> "no_parking") @@ (34 :> "rub_a_dub_dub") @@
    (36 :> "and_stay_out") @@ (37 :> "killer_kitty") @@ (38 :> "who_needs_cash") @@
    (39 :> "little_kitty_big_city") @@ (41 :> "cant_stop_the_feelings") @@
    (42 :> "what_sweet_music") @@ (43 :> "trip_hazard") @@ (44 :> "splish") @@
    (45 :> "decluttering") @@ (46 :> "dumpster_diving")

\* the toggle of the arm is not consulted
split_setting_any(table, quest_id, s) == quest_id \in DOMAIN table

\* the arm of the match for quest_id; `_ => false`
split_setting(table, quest_id, s) == quest_id \in DOMAIN table /\ table[quest_id] \in s

\* quest.old.iter().find(|&val| val.quest_id.eq(&quest_id)).map(|val| val.complete)
RECURSIVE find_old(_, _, _)
find_old(old, quest_id, k) ==
    IF k > Len(old) THEN None
    ELSE IF old[k].quest_id = quest_id THEN Some(old[k].complete)
    ELSE find_old(old, quest_id, k + 1)

\* an id with no record in old counts as not complete before:
\* old.map_or(true, |val| !val)
RECURSIVE quest_loop_absent(_, _, _, _)
quest_loop_absent(quest, table, s, k) ==
    IF k > Len(quest.current) THEN FALSE
    ELSE LET i == quest.current[k]
             old == find_old(quest.old, i.quest_id, 1)
         IN  IF /\ split_setting(table, i.quest_id, s)
                /\ (old = None \/ ~old[1])
                /\ i.complete
             THEN TRUE
             ELSE quest_loop_absent(quest, table, s, k + 1)

\* for i in &quest.current { .. value = true; break; .. }
RECURSIVE quest_loop(_, _, _, _)
quest_loop(quest, table, s, k) ==
    IF k > Len(quest.current) THEN FALSE
    ELSE LET i == quest.current[k]
             old == find_old(quest.old, i.quest_id, 1)
         IN  IF /\ split_setting(table, i.quest_id, s)
                /\ old # None /\ ~old[1]
                /\ i.complete
             THEN TRUE
             ELSE quest_loop(quest, table, s, k + 1)

quest_split(w, table, s) == w # None /\ quest_loop(w[1], table, s, 1)

\* the got_home toggle is not consulted
end_trigger_always(w, s) == PairChangedTo(w.end_trigger, TRUE)

\* let end_trigger = settings.got_home && ..end_trigger.. changed_to(&true)
end_trigger_split(w, s) == "got_home" \in s /\ PairChangedTo(w.end_trigger, TRUE)

\* let post_eating = settings.eat_fish && ..is_post_eating.. changed_to(&true)
post_eating_split(w, s) == "eat_fish" \in s /\ PairChangedTo(w.is_post_eating, TRUE)

\* one table serves both lists: the arms of the primary match
split_one_table(w, s) ==
    LET end_trigger == end_trigger_split(w, s)
        quest_list == quest_split(w.quest_list, PrimaryTable, s)
        catchievements == quest_split(w.quest_secondary_list, PrimaryTable, s)
        post_eating == post_eating_split(w, s)
    IN  end_trigger \/ quest_list \/ catchievements \/ post_eating

split(w, s) ==
    LET end_trigger == end_trigger_split(w, s)
        quest_list == quest_split(w.quest_list, PrimaryTable, s)
        catchievements == quest_split(w.quest_secondary_list, SecondaryTable, s)
        post_eating == post_eating_split(w, s)
    IN  end_trigger \/ quest_list \/ catchievements \/ post_eating

\* a reset when the game is back in a loading scene
reset_in_menu(w, s) == w.is_loading # None /\ w.is_loading[1].current = TRUE

reset(w, s) == FALSE

\* the edge of the loading watcher instead of its level
is_loading_edge(w, s) == Some(PairChangedTo(w.is_loading, TRUE))

is_loading(w, s) == Some(w.is_loading # None /\ w.is_loading[1].current = TRUE)

\* the game time is overridden: a clock of the auto splitter, at zero
game_time_clock(w, s) == Some(0)

game_time(w, s) == None

---------------------------------------------------------------------------
(* The timer of the host: timer::state() and the effect of the calls.      *)

TimerStates == {"NotRunning", "Running", "Paused", "Ended"}

\* the host's timer after one call; last: the split closes the last segment
TimerAfter(state, call, last) ==
    CASE call = "start" /\ state = "NotRunning" -> "Running"
      [] call = "split" /\ state = "Running" -> IF last THEN "Ended" ELSE "Running"
      [] call = "reset" -> "NotRunning"
      [] OTHER -> state

RECURSIVE TimerAfterAll(_, _, _)
TimerAfterAll(state, cs, last) ==
    IF cs = <<>> THEN state
    ELSE TimerAfterAll(TimerAfter(state, Head(cs), last), Tail(cs), last)

---------------------------------------------------------------------------
(* One iteration of the loop of main (lib.rs 77-122).                      *)

\* match val { true => timer::pause_game_time(), false => timer::resume_game_time() }
\* the game time is paused or resumed only when the loading value changed
LoadingCalls_on_change(w, s) ==
    LET val == is_loading(w, s)
    IN  IF val = None \/ (w.is_loading # None /\ w.is_loading[1].old = w.is_loading[1].current)
        THEN <<>>
        ELSE IF val[1] THEN <<"pause_game_time">> ELSE <<"resume_game_time">>

LoadingCalls(w, s) ==
    LET val == is_loading(w, s)
    IN  IF val = None THEN <<>>
        ELSE IF val[1] THEN <<"pause_game_time">> ELSE <<"resume_game_time">>

\* the achievements are split for apart from the quests and the end and eat
\* conditions
RunningCalls_per_list(w, s) ==
    LoadingCalls(w, s)
    \o (IF game_time(w, s) # None THEN <<"set_game_time">> ELSE <<>>)
    \o (IF reset(w, s) THEN <<"reset">>
        ELSE (IF \/ end_trigger_split(w, s)
                 \/ quest_split(w.quest_list, PrimaryTable, s)
                 \/ post_eating_split(w, s)
              THEN <<"split">> ELSE <<>>)
             \o (IF quest_split(w.quest_secondary_list, SecondaryTable, s)
                 THEN <<"split">> ELSE <<>>))

\* the body of `if [Running, Paused].contains(&timer::state())`
RunningCalls(w, s) ==
    LoadingCalls(w, s)
    \o (IF game_time(w, s) # None THEN <<"set_game_time">> ELSE <<>>)
    \o (IF reset(w, s) THEN <<"reset">>
        ELSE IF split(w, s) THEN <<"split">> ELSE <<>>)

\* the run starts with the game time paused; is_loading is left to the next
\* iteration
StartCalls_paused(w, s) == <<"start", "pause_game_time">>

\* the body of `if timer::state().eq(&NotRunning) && start(..)`
StartCalls(w, s) == <<"start", "pause_game_time">> \o LoadingCalls(w, s)

\* the start block comes first: a run that starts is looked at for splits on
\* the same iteration
TickCalls_start_first(w, s, ts, last) ==
    LET begun == IF ts = "NotRunning" /\ start(w, s) THEN StartCalls(w, s) ELSE <<>>
        ts1 == TimerAfterAll(ts, begun, last)
    IN  begun \o (IF ts1 \in {"Running", "Paused"} THEN RunningCalls(w, s) ELSE <<>>)

\* the start block runs whenever the timer is not running, start() unasked
TickCalls_unchecked(w, s, ts, last) ==
    LET first == IF ts \in {"Running", "Paused"} THEN RunningCalls(w, s) ELSE <<>>
        ts1 == TimerAfterAll(ts, first, last)
    IN  first \o (IF ts1 = "NotRunning" THEN StartCalls(w, s) ELSE <<>>)

\* the calls of one iteration, the timer being in state ts when it begins
TickCalls(w, s, ts, last) ==
    LET first == IF ts \in {"Running", "Paused"} THEN RunningCalls(w, s) ELSE <<>>
        ts1 == TimerAfterAll(ts, first, last)
    IN  first \o (IF ts1 = "NotRunning" /\ start(w, s) THEN StartCalls(w, s) ELSE <<>>)

\* settings.update() at the end of the iteration: the decisions of a tick are
\* taken with the toggles read on the tick before
TickRuns_stale(m, s) ==
    /\ phase = "attached"
    /\ settings' = s
    /\ watchers' = update_loop(m, watchers)
    /\ mem' = Some(m)
    /\ fed_old' = fed
    /\ fed' = Some(Supplied(m, watchers))
    /\ \E last \in (IF split(watchers', settings) THEN BOOLEAN ELSE {FALSE}) :
          /\ calls' = TickCalls(watchers', settings, timer_state, last)
          /\ timer_state' = TimerAfterAll(timer_state, calls', last)
    /\ UNCHANGED <<phase, aside, process, memory>>

\* settings.update() reads s from the host, update_loop reads m from the game;
\* a split that closes the last segment ends the run
TickRuns(m, s) ==
    /\ phase = "attached"
    /\ settings' = s
    /\ watchers' = update_loop(m, watchers)
    /\ mem' = Some(m)
    /\ fed_old' = fed
    /\ fed' = Some(Supplied(m, watchers))
    /\ \E last \in (IF split(watchers', s) THEN BOOLEAN ELSE {FALSE}) :
          /\ calls' = TickCalls(watchers', s, timer_state, last)
          /\ timer_state' = TimerAfterAll(timer_state, calls', last)
    /\ UNCHANGED <<phase, aside, process, memory>>

\* the tick panics inside update_loop: the loop never reaches next_tick
TickPanics(s) ==
    /\ phase = "attached"
    /\ phase' = "aborted"
    /\ settings' = s
    /\ UNCHANGED <<watchers, mem, timer_state, calls, fed, fed_old, aside, process, memory>>

\* one iteration of the loop of main; an id read past the record is undefined
\* behaviour: it traps or yields whatever lies there
Tick(m, s) ==
    /\ phase = "attached"
    /\ \E ub \in PastRecord(memory[1], m) :
          IF ub[1] = "trap" \/ Panics(memory[1], m)
          THEN TickPanics(s)
          ELSE TickRuns(Garbled(m, ub), s)

\* the SceneManager that wait_attach returns for a 64-bit player whose scene
\* manager lies at address
FoundAt(address) ==
    [pointer_size |-> "Bit64", address |-> address, offsets |-> Offsets_new("Bit64")]

\* Memory::init hoisted out of the attach loop: built once, for the first game
AttachTo_hoisted(p) ==
    /\ phase = "detached"
    /\ phase' = "attached"
    /\ process' = Some(p)
    /\ watchers' = DefaultWatchers
    /\ memory' = Some([scene_manager |-> FoundAt(1), offset_achievement_id |-> 16,
                       offset_achievement_completed |-> 20])
    /\ mem' = None /\ fed' = None /\ fed_old' = None
    /\ calls' = <<>>
    /\ UNCHANGED <<settings, timer_state, aside>>

\* Process::attach succeeded: Watchers::default() and Memory::init (lib.rs 48-75)
\* the watchers of a session begin with a reading of nothing: every flag false,
\* every list empty
AttachTo_seeded(p) ==
    /\ phase = "detached"
    /\ phase' = "attached"
    /\ process' = Some(p)
    /\ watchers' = update_loop([scene |-> None, post_eat |-> None, allow_shake |-> None,
                                is_outro |-> None, is_loading_save |-> None,
                                is_teleporting |-> None, quest_list |-> None,
                                quest_secondary_list |-> None], DefaultWatchers)
    /\ memory' = Some(Memory_init(p))
    /\ mem' = None /\ fed' = None /\ fed_old' = None
    /\ calls' = <<>>
    /\ UNCHANGED <<settings, timer_state, aside>>

AttachTo(p) ==
    /\ phase = "detached"
    /\ phase' = "attached"
    /\ process' = Some(p)
    /\ watchers' = DefaultWatchers
    /\ memory' = Some(Memory_init(p))
    /\ mem' = None /\ fed' = None /\ fed_old' = None
    /\ calls' = <<>>
    /\ UNCHANGED <<settings, timer_state, aside>>

\* the game as shipped: the fields of Achievement lie inside the bytes read
GameProcess ==
    [scene_manager |-> FoundAt(1), achievement |-> [id |-> 16, completed |-> 20]]

Attach == AttachTo(GameProcess)

\* the game exits: until_closes drops the session (lib.rs 60-61, 123-124)
ProcessCloses ==
    /\ phase = "attached"
    /\ phase' = "detached"
    /\ process' = None
    /\ memory' = None
    /\ watchers' = DefaultWatchers
    /\ mem' = None /\ fed' = None /\ fed_old' = None
    /\ calls' = <<>>
    /\ UNCHANGED <<settings, timer_state, aside>>

\* the user starts, pauses, resets or finishes the run in the host
UserTimer ==
    /\ \E ts \in TimerStates \ {timer_state} : timer_state' = ts
    /\ UNCHANGED <<phase, settings, watchers, mem, calls, fed, fed_old, aside, process, memory>>

---------------------------------------------------------------------------
(* What the game holds and what the host supplies.                         *)

ScenePath(name) == Some([dir |-> "Assets/Scenes", name |-> name])

\* the outcomes of deref::<u8>: the path is broken, or the byte read
FlagReads == {None, Some(0), Some(1)}

\* an Achievement object of the game, as the 0x68 bytes read at its address
Achievement(id, completed) == [id |-> id, completed |-> completed]

\* a List<Achievement> of the game that is whole and readable
Healthy(items) ==
    [header |-> Some([data_pointer |-> "array", count |-> Len(items)]),
     arr |-> [k \in 1..Len(items) |-> k],
     objects |-> [k \in 1..Len(items) |-> Some(items[k])]]

NoList == [header |-> None, arr |-> <<>>, objects |-> <<>>]

\* the settings map of the host at the next tick: the user changes at most one
\* of the toggles between two ticks
HostSettings(cur, toggles) ==
    {cur} \cup {(cur \ {t}) \cup ({t} \ cur) : t \in toggles}

NoMem ==
    [scene |-> None, post_eat |-> None, allow_shake |-> None, is_outro |-> None,
     is_loading_save |-> None, is_teleporting |-> None,
     quest_list |-> None, quest_secondary_list |-> None]

\* the scene is the entry scene or unreadable; the flags of the player and of the
\* game manager vary
MemMain ==
    {[NoMem EXCEPT !.scene = sc, !.post_eat = Some(pe), !.allow_shake = Some(sh),
                   !.is_outro = Some(ou)] :
        sc \in {None, ScenePath("Level_X")},
        pe \in {0, 1}, sh \in {0, 1}, ou \in {0, 1}}

TogglesMain == {"start", "eat_fish", "got_home"}

Init ==
    /\ phase = "detached"
    /\ settings = DefaultSettings
    /\ watchers = DefaultWatchers
    /\ mem = None /\ fed = None /\ fed_old = None
    /\ timer_state = "NotRunning"
    /\ calls = <<>>
    /\ list_in = NoList
    /\ list_out = None
    /\ process = None
    /\ memory = None
    /\ unity = NoUnity
    /\ scene_manager = None
    /\ scene_path = None
    /\ heap = NoHeap
    /\ unity_pointer = None
    /\ deref_out = None
    /\ walked = NoWalks

Next ==
    \/ \E m \in MemMain, s \in HostSettings(settings, TogglesMain) : Tick(m, s)
    \/ Attach
    \/ ProcessCloses
    \/ UserTimer

Spec == Init /\ [][Next]_vars

\* the start trigger, the loading flags and one split condition vary, so that a
\* start, a split and a load can fall on the same tick
MemCalls ==
    {[NoMem EXCEPT !.scene = sc, !.post_eat = Some(pe), !.allow_shake = Some(sh),
                   !.is_teleporting = Some(te)] :
        sc \in {ScenePath("Level_X"), ScenePath("Loading")},
        pe \in {0, 1}, sh \in {0, 1}, te \in {0, 1}}

TogglesCalls == {"start", "eat_fish"}

NextCalls ==
    \/ \E m \in MemCalls, s \in HostSettings(settings, TogglesCalls) : Tick(m, s)
    \/ Attach
    \/ ProcessCloses
    \/ UserTimer

SpecCalls == Init /\ [][NextCalls]_vars

(***************************************************************************)
(* The inputs of the loading watcher: the scene is unreadable, a level,    *)
(* the loading scene or the main menu; each of the two flags is            *)
(* unreadable or a byte, 0, 2 or 255.                                      *)
(***************************************************************************)
MemLoading ==
    {[NoMem EXCEPT !.scene = sc, !.is_loading_save = sv, !.is_teleporting = te] :
        sc \in {None, ScenePath("Level_X"), ScenePath("Loading"), ScenePath("MainMenu_LKBC")},
        sv \in {None, Some(0), Some(2)},
        te \in {None, Some(0), Some(255)}}

NextLoading ==
    \/ \E m \in MemLoading : Tick(m, settings)
    \/ Attach
    \/ ProcessCloses
    \/ UserTimer

SpecLoading == Init /\ [][NextLoading]_vars

\* the two quest lists vary: every list of at most MaxQuests achievements with
\* distinct ids drawn from QuestIds (the journal holds an achievement once)
MaxQuests == 2
QuestIds == {32, 5}     \* 32 is in both tables, 5 in neither

RECURSIVE QuestLists(_)
QuestLists(n) ==
    IF n = 0 THEN {<<>>}
    ELSE LET shorter == QuestLists(n - 1)
         IN  shorter \cup
             {Append(l, Achievement(id, c)) :
                 l \in {x \in shorter : Len(x) = n - 1}, id \in QuestIds, c \in {0, 1}}

DistinctIds(l) == \A j, k \in 1..Len(l) : l[j].id = l[k].id => j = k

MemQuest ==
    {[NoMem EXCEPT !.quest_list = Some(Healthy(p)), !.quest_secondary_list = sec] :
        p \in {l \in QuestLists(MaxQuests) : DistinctIds(l)},
        sec \in {Some(Healthy(<<Achievement(32, c)>>)) : c \in {0, 1}}}

TogglesQuest == {"find_crow", "to_me_to_you"}

\* a run is under way when the auto splitter is loaded
InitQuest ==
    /\ phase = "detached"
    /\ settings = DefaultSettings
    /\ watchers = DefaultWatchers
    /\ mem = None /\ fed = None /\ fed_old = None
    /\ timer_state = "Running"
    /\ calls = <<>>
    /\ list_in = NoList
    /\ list_out = None
    /\ process = None
    /\ memory = None
    /\ unity = NoUnity
    /\ scene_manager = None
    /\ scene_path = None
    /\ heap = NoHeap
    /\ unity_pointer = None
    /\ deref_out = None
    /\ walked = NoWalks

NextQuest ==
    \/ \E m \in MemQuest, s \in HostSettings(settings, TogglesQuest) : Tick(m, s)
    \/ Attach
    \/ ProcessCloses

SpecQuest == InitQuest /\ [][NextQuest]_vars

\* each of the two lists is empty or holds one record, of id 32 or of id 5
MemTables ==
    {[NoMem EXCEPT !.quest_list = Some(Healthy(p)),
                   !.quest_secondary_list = Some(Healthy(q))] :
        p \in QuestLists(1), q \in QuestLists(1)}

NextTables ==
    \/ \E m \in MemTables, s \in HostSettings(settings, TogglesQuest) : Tick(m, s)
    \/ Attach
    \/ ProcessCloses

SpecTables == InitQuest /\ [][NextTables]_vars

\* two quests, one achievement and the end and eat flags, each of which may
\* turn on the same tick as the others
MemTogether ==
    {[NoMem EXCEPT !.quest_list = Some(Healthy(<<Achievement(32, c1), Achievement(21, c2)>>)),
                   !.quest_secondary_list = Some(Healthy(<<Achievement(32, c3)>>)),
                   !.post_eat = Some(pe), !.is_outro = Some(ou)] :
        c1 \in {0, 1}, c2 \in {0, 1}, c3 \in {0, 1}, pe \in {0, 1}, ou \in {0, 1}}

NextTogether ==
    \/ \E m \in MemTogether, s \in HostSettings(settings, {"to_me_to_you"}) : Tick(m, s)
    \/ Attach
    \/ ProcessCloses

SpecTogether == InitQuest /\ [][NextTogether]_vars

\* what a session may find on its first tick: the entry scene, the shake, eat
\* and end flags set or not, a quest complete or not
MemFirst ==
    {[NoMem EXCEPT !.scene = ScenePath("Level_X"), !.allow_shake = Some(sh),
                   !.post_eat = Some(pe), !.is_outro = Some(ou),
                   !.quest_list = Some(Healthy(<<Achievement(32, c)>>))] :
        sh \in {0, 1}, pe \in {0, 1}, ou \in {0, 1}, c \in {0, 1}}

NextFirst ==
    \/ \E m \in MemFirst : Tick(m, settings)
    \/ Attach
    \/ ProcessCloses
    \/ UserTimer

SpecFirst == Init /\ [][NextFirst]_vars

\* the post-eating and the end flag of the game stay true; a read of either
\* succeeds or fails
MemFlaky ==
    {[NoMem EXCEPT !.post_eat = pe, !.is_outro = ou] :
        pe \in {None, Some(1)}, ou \in {None, Some(1)}}

NextFlaky ==
    \/ \E m \in MemFlaky, s \in HostSettings(settings, {"eat_fish"}) : Tick(m, s)
    \/ Attach
    \/ ProcessCloses
    \/ UserTimer

SpecFlaky == Init /\ [][NextFlaky]_vars

\* one session that follows one quest q of the primary table: the primary list
\* holds q, alone or next to a completed achievement with an id of no table,
\* and the post-eating flag varies
PrimaryListsOf(q) ==
    {l \in QuestLists(MaxQuests) :
        /\ DistinctIds(l)
        /\ \E k \in 1..Len(l) : l[k].id = q
        /\ \A k \in 1..Len(l) : l[k].id = q \/ l[k].completed = 1}

MemPrimary(q) ==
    {[NoMem EXCEPT !.quest_list = Some(Healthy(
                        [k \in 1..Len(l) |->
                            IF l[k].id = 32 THEN Achievement(q, l[k].completed) ELSE l[k]])),
                   !.post_eat = Some(pe)] :
        l \in PrimaryListsOf(32), pe \in {0, 1}}

NextPrimary ==
    \/ \E q \in DOMAIN PrimaryTable :
          /\ IF mem = None THEN TRUE ELSE mem[1] \in MemPrimary(q)
          /\ \E m \in MemPrimary(q),
                s \in HostSettings(settings, {PrimaryTable[q]}) : Tick(m, s)
    \/ Attach

SpecPrimary == InitQuest /\ [][NextPrimary]_vars

\* the Mono class of Achievement places a field at or past the end of the record
OffsetProcesses ==
    {[scene_manager |-> FoundAt(1), achievement |-> a] :
        a \in {[id |-> 16, completed |-> 20], [id |-> 16, completed |-> 104],
               [id |-> 102, completed |-> 20]}}

MemOffsets ==
    {[NoMem EXCEPT !.scene = ScenePath("Level_X"), !.allow_shake = Some(sh),
                   !.quest_list = q] :
        sh \in {0, 1},
        q \in {None, Some(Healthy(<<>>))}
              \cup {Some(Healthy(<<Achievement(32, c)>>)) : c \in {0, 1}}}

NextOffsets ==
    \/ \E m \in MemOffsets, s \in HostSettings(settings, {"find_crow"}) : Tick(m, s)
    \/ \E p \in OffsetProcesses : AttachTo(p)
    \/ ProcessCloses

SpecOffsets == InitQuest /\ [][NextOffsets]_vars

\* the game is closed and opened again, as the same build or as another one
Processes ==
    {GameProcess,
     [scene_manager |-> FoundAt(2), achievement |-> [id |-> 24, completed |-> 28]]}

MemSessions ==
    {[NoMem EXCEPT !.scene = ScenePath("Level_X"), !.allow_shake = Some(sh),
                   !.post_eat = Some(pe)] : sh \in {0, 1}, pe \in {0, 1}}

NextSessions ==
    \/ \E m \in MemSessions, s \in HostSettings(settings, {"start", "eat_fish"}) : Tick(m, s)
    \/ \E p \in Processes : AttachTo(p)
    \/ ProcessCloses
    \/ UserTimer

SpecSessions == Init /\ [][NextSessions]_vars

\* the scene as the scene manager of the session reads it: the active-scene
\* pointer is unreadable, null or set, and the path of the scene readable or not
SceneImages ==
    [active : {"fail", "null", "ok"},
     path : {None, ScenePath("Level_X"), ScenePath("Loading")}]

\* the reads of one tick, the scene read through the scene manager of the
\* session; scene_image keeps what the game held
MemScene(sm) ==
    {[scene_image |-> g, scene |-> get_current_scene_path(sm, g),
      post_eat |-> None, allow_shake |-> Some(sh), is_outro |-> None,
      is_loading_save |-> None, is_teleporting |-> Some(te),
      quest_list |-> None, quest_secondary_list |-> None] :
        g \in SceneImages, sh \in {0, 1}, te \in {0, 1}}

NextScene ==
    \/ /\ memory # None
       /\ \E m \in MemScene(memory[1].scene_manager),
             s \in HostSettings(settings, {"start"}) : Tick(m, s)
    \/ Attach
    \/ ProcessCloses
    \/ UserTimer

SpecScene == Init /\ [][NextScene]_vars

\* SceneManager on its own, over the images of a 64-bit and of a 32-bit player
MatchAddrs == {10, 20}

UnityImages ==
    LET Sigs == {"SIG_64_BIT", "SIG_32_1", "SIG_32_2", "SIG_32_3"}
        player64 ==
            {[module |-> TRUE, machine |-> Some("X86_64"),
              matches |-> [g \in Sigs |-> IF g = "SIG_64_BIT" THEN m ELSE {}],
              unreadable |-> u] :
                m \in SUBSET MatchAddrs, u \in {{}, {17}, {27}}}
        player32 ==
            {[module |-> TRUE, machine |-> Some("I386"),
              matches |-> [g \in Sigs |-> CASE g = "SIG_32_1" -> m1 [] g = "SIG_32_2" -> m2
                                              [] g = "SIG_32_3" -> m3 [] OTHER -> {}],
              unreadable |-> u] :
                m1 \in SUBSET MatchAddrs, m2 \in SUBSET MatchAddrs, m3 \in SUBSET MatchAddrs,
                u \in {{}} \cup {{x} : x \in {15, 25, 6, 16, 17, 27}}}
        absent ==
            {[module |-> FALSE, machine |-> None, matches |-> [g \in Sigs |-> {}],
              unreadable |-> {}],
             [module |-> TRUE, machine |-> None, matches |-> [g \in Sigs |-> MatchAddrs],
              unreadable |-> {}]}
    IN  {[module |-> i.module, machine |-> i.machine, matches |-> i.matches,
          unreadable |-> i.unreadable, manager |-> mg, active |-> ac, path |-> pa,
          stored |-> <<>>] :
            i \in player64 \cup player32 \cup absent,
            mg \in {"fail", "null", "ok"}, ac \in {"fail", "null", "ok"},
            pa \in {None, ScenePath("Level_X")}}

InitAttach ==
    /\ phase = "detached"
    /\ settings = DefaultSettings
    /\ watchers = DefaultWatchers
    /\ mem = None /\ fed = None /\ fed_old = None
    /\ timer_state = "NotRunning"
    /\ calls = <<>>
    /\ list_in = NoList
    /\ list_out = None
    /\ process = None
    /\ memory = None
    /\ unity \in UnityImages
    /\ scene_manager = None
    /\ scene_path = None
    /\ heap = NoHeap
    /\ unity_pointer = None
    /\ deref_out = None
    /\ walked = NoWalks

CallAttach ==
    /\ scene_manager = None
    /\ scene_manager' = Some(SceneManager_attach(unity))
    /\ UNCHANGED <<phase, settings, watchers, mem, timer_state, calls, fed, fed_old,
                   list_in, list_out, process, memory, unity, scene_path, pathvars>>

\* a scene manager that is held is asked for the scene
CallScenePath ==
    /\ scene_manager # None /\ scene_manager[1] # None
    /\ scene_path = None
    /\ scene_path' = Some(get_current_scene_path(scene_manager[1][1], unity))
    /\ UNCHANGED <<phase, settings, watchers, mem, timer_state, calls, fed, fed_old,
                   list_in, list_out, process, memory, unity, scene_manager, pathvars>>

NextAttach == CallAttach \/ CallScenePath

SpecAttach == InitAttach /\ [][NextAttach]_vars

(***************************************************************************)
(* The 64-bit player with a displacement after each match of SIG_64_BIT:   *)
(* the displacements, forward and backward, with the four bytes that hold  *)
(* each of them in the module.                                             *)
(***************************************************************************)
Displacements ==
    {[value |-> 0 - 16, bytes |-> <<240, 255, 255, 255>>],
     [value |-> 0 - 1, bytes |-> <<255, 255, 255, 255>>],
     [value |-> 0, bytes |-> <<0, 0, 0, 0>>],
     [value |-> 5, bytes |-> <<5, 0, 0, 0>>],
     [value |-> 256, bytes |-> <<0, 1, 0, 0>>]}

BaseImages ==
    LET Sigs == {"SIG_64_BIT", "SIG_32_1", "SIG_32_2", "SIG_32_3"}
    IN  {[module |-> TRUE, machine |-> Some("X86_64"),
          matches |-> [g \in Sigs |-> IF g = "SIG_64_BIT" THEN m ELSE {}],
          unreadable |-> u, manager |-> mg, active |-> "ok",
          path |-> ScenePath("Level_X"),
          stored |-> [x \in {17, 27} |-> IF x = 17 THEN d1.bytes ELSE d2.bytes]] :
            m \in SUBSET MatchAddrs, u \in {{}, {17}, {27}},
            mg \in {"fail", "null", "ok"},
            d1 \in Displacements, d2 \in Displacements}

InitBase ==
    /\ phase = "detached"
    /\ settings = DefaultSettings
    /\ watchers = DefaultWatchers
    /\ mem = None /\ fed = None /\ fed_old = None
    /\ timer_state = "NotRunning"
    /\ calls = <<>>
    /\ list_in = NoList
    /\ list_out = None
    /\ process = None
    /\ memory = None
    /\ unity \in BaseImages
    /\ scene_manager = None
    /\ scene_path = None
    /\ heap = NoHeap
    /\ unity_pointer = None
    /\ deref_out = None
    /\ walked = NoWalks

SpecBase == InitBase /\ [][NextAttach]_vars

\* UnityPointer on its own: the game rearranges its objects between the derefs
Heaps ==
    [root : {None, Some(0)} \cup {Some(c) : c \in CollAddrs},
     coll : [CollAddrs -> {0} \cup ObjAddrs],
     leaf : [ObjAddrs -> {0, 1}]]

InitPath ==
    /\ phase = "detached"
    /\ settings = DefaultSettings
    /\ watchers = DefaultWatchers
    /\ mem = None /\ fed = None /\ fed_old = None
    /\ timer_state = "NotRunning"
    /\ calls = <<>>
    /\ list_in = NoList
    /\ list_out = None
    /\ process = None
    /\ memory = None
    /\ unity = NoUnity
    /\ scene_manager = None
    /\ scene_path = None
    /\ heap \in Heaps
    /\ unity_pointer = None
    /\ deref_out = None
    /\ walked = NoWalks

\* the game runs on: it moves the collection or an object, or changes a value
GameMoves ==
    /\ \E h \in Heaps :
          /\ h # heap
          /\ \/ h.coll = heap.coll /\ h.leaf = heap.leaf
             \/ h.root = heap.root /\ h.leaf = heap.leaf
                /\ \E c \in CollAddrs : \A d \in CollAddrs \ {c} : h.coll[d] = heap.coll[d]
             \/ h.root = heap.root /\ h.coll = heap.coll
                /\ \E b \in ObjAddrs : \A d \in ObjAddrs \ {b} : h.leaf[d] = heap.leaf[d]
          /\ heap' = h
    /\ deref_out' = None
    /\ UNCHANGED <<phase, settings, watchers, mem, timer_state, calls, fed, fed_old,
                   list_in, list_out, process, memory, unity, scene_manager, scene_path,
                   unity_pointer, walked>>

\* the path is read through the addresses of the deref before, the pointers on
\* the way not being read again
Deref_remembered ==
    /\ deref_out = None
    /\ \E oracle_ok \in BOOLEAN :
          LET chain == IF unity_pointer # None THEN unity_pointer
                       ELSE resolve(Path, oracle_ok)
              now == IF chain = None THEN <<>> ELSE trail(heap, StaticBase, chain[1], 1)
              at == IF Len(walked.current) = Len(Path.segments) THEN walked.current ELSE now
          IN  /\ unity_pointer' = chain
              /\ deref_out' = Some(IF chain = None \/ Len(at) < Len(Path.segments) THEN None
                                   ELSE ReadCell(heap, at[Len(at)]))
              /\ walked' = [old |-> walked.current, current |-> at]
    /\ UNCHANGED <<phase, settings, watchers, mem, timer_state, calls, fed, fed_old,
                   list_in, list_out, process, memory, unity, scene_manager, scene_path,
                   heap>>

\* UnityPointer::deref: resolves the offsets on first use, then walks the
\* pointers from the static slot
Deref ==
    /\ deref_out = None
    /\ \E oracle_ok \in BOOLEAN :
          LET chain == IF unity_pointer # None THEN unity_pointer
                       ELSE resolve(Path, oracle_ok)
          IN  /\ unity_pointer' = chain
              /\ deref_out' = Some(IF chain = None THEN None
                                   ELSE walk(heap, StaticBase, chain[1], 1))
              /\ walked' = [old |-> walked.current,
                            current |-> IF chain = None THEN <<>>
                                        ELSE trail(heap, StaticBase, chain[1], 1)]
    /\ UNCHANGED <<phase, settings, watchers, mem, timer_state, calls, fed, fed_old,
                   list_in, list_out, process, memory, unity, scene_manager, scene_path,
                   heap>>

NextPath == Deref \/ GameMoves

SpecPath == InitPath /\ [][NextPath]_vars

\* CSharpList::iter on its own, over every list image within the bounds
MaxSlots == 3       \* the longest readable element array

RECURSIVE SlotArrays(_)
SlotArrays(n) ==
    IF n = 0 THEN {<<>>}
    ELSE LET shorter == SlotArrays(n - 1)
         IN  shorter \cup
             {Append(l, a) : l \in {x \in shorter : Len(x) = n - 1}, a \in 0..MaxObjects}

ObjectAt(a) == Achievement(31 + a, 1)

ListImages ==
    [header : {None} \cup
              {Some(h) : h \in [data_pointer : {"null", "array", "unmapped"},
                                count : 0..MaxCount]},
     arr : SlotArrays(MaxSlots),
     objects : {[a \in 1..MaxObjects |-> IF a \in ok THEN Some(ObjectAt(a)) ELSE None] :
                   ok \in SUBSET (1..MaxObjects)}]

InitList ==
    /\ phase = "detached"
    /\ settings = DefaultSettings
    /\ watchers = DefaultWatchers
    /\ mem = None /\ fed = None /\ fed_old = None
    /\ timer_state = "NotRunning"
    /\ calls = <<>>
    /\ list_in \in ListImages
    /\ list_out = None
    /\ process = None
    /\ memory = None
    /\ unity = NoUnity
    /\ scene_manager = None
    /\ scene_path = None
    /\ heap = NoHeap
    /\ unity_pointer = None
    /\ deref_out = None
    /\ walked = NoWalks

CallIter ==
    /\ list_out = None
    /\ list_out' = Some(iter(list_in))
    /\ UNCHANGED <<phase, settings, watchers, mem, timer_state, calls, fed, fed_old, list_in,
                   process, memory, unity, scene_manager, scene_path, pathvars>>

NextList == CallIter

SpecList == InitList /\ [][NextList]_vars

---------------------------------------------------------------------------
(* Properties.                                                             *)

Ticked == fed # None
FirstTick == fed # None /\ fed_old = None

\* the value supplied to boolean watcher x rose from false to true between the
\* tick before and the last tick
Rose(x) == fed # None /\ fed_old # None /\ fed[1][x] /\ ~fed_old[1][x]

Count(cs, op) == Cardinality({k \in 1..Len(cs) : cs[k] = op})

Holds(list, quest_id, complete) ==
    \E k \in 1..Len(list) : list[k].quest_id = quest_id /\ list[k].complete = complete

Absent(list, quest_id) == \A k \in 1..Len(list) : list[k].quest_id # quest_id

\* the snapshots of watcher w hold quest_id as not complete (old) and complete (current)
Completed(w, quest_id) ==
    w # None /\ Holds(w[1].old, quest_id, FALSE) /\ Holds(w[1].current, quest_id, TRUE)

Collections ==
    {[w |-> watchers.quest_list, table |-> PrimaryTable],
     [w |-> watchers.quest_secondary_list, table |-> SecondaryTable]}

\* C1: right after the first update of a session no watcher reports a change to
\* any value, whatever was supplied, and start() and the end and eat conditions
\* of split() are false.
C1_FirstUpdateReportsNothing ==
    FirstTick =>
        /\ \A x \in {"start_trigger", "end_trigger", "is_post_eating", "allow_player_shake"} :
              /\ watchers[x] # None /\ watchers[x][1].current = fed[1][x]
              /\ \A v \in BOOLEAN : ~PairChangedTo(watchers[x], v)
        /\ ~start(watchers, settings)
        /\ ~end_trigger_split(watchers, settings)
        /\ ~post_eating_split(watchers, settings)

C1_Witness ==
    /\ FirstTick
    /\ fed[1].end_trigger /\ fed[1].is_post_eating /\ fed[1].allow_player_shake
    /\ SceneIs(mem[1].scene, {"Level_X"})
    /\ {"start", "eat_fish", "got_home"} \subseteq settings

BoolWatchers ==
    {"start_trigger", "end_trigger", "is_post_eating", "allow_player_shake", "is_loading"}

\* C2 as stated: changed_to(true) holds exactly when the value supplied last is
\* true and the one before it was not true or there was none (unset).
C2_Original ==
    \A x \in BoolWatchers :
        PairChangedTo(watchers[x], TRUE)
            <=> (fed # None /\ fed[1][x] /\ (fed_old = None \/ ~fed_old[1][x]))

\* C2 (amended): changed_to(true) holds exactly when the value supplied last is
\* true and the one supplied before it was false; it is false after the first
\* update, whatever that supplied.
C2_ChangedToTrueOnRisingEdge ==
    \A x \in BoolWatchers : PairChangedTo(watchers[x], TRUE) <=> Rose(x)

C2_Witness ==
    /\ Rose("is_post_eating") /\ PairChangedTo(watchers.is_post_eating, TRUE)
    /\ fed_old[1].end_trigger /\ fed[1].end_trigger
    /\ ~PairChangedTo(watchers.end_trigger, TRUE)

\* C3: with auto-start enabled, the scene read on a tick being Level_X and the
\* shake flag having gone from false to true since the tick before, start() is
\* true on that tick.
C3_StartOnTheSameTick ==
    ("start" \in settings /\ Rose("allow_player_shake")
        /\ SceneIs(mem[1].scene, {"Level_X"}))
        => start(watchers, settings)

C3_Witness ==
    /\ "start" \in settings /\ Rose("allow_player_shake")
    /\ SceneIs(mem[1].scene, {"Level_X"})
    /\ mem[1].allow_shake = Some(1)
    /\ "start" \in {calls[k] : k \in 1..Len(calls)}

\* C4: the old primary snapshot holding q as not complete and the current one as
\* complete, split() is true if the toggle of q is enabled, and false if it is
\* disabled and no other split condition holds.
C4_PrimaryQuestCompletion ==
    \A q \in DOMAIN PrimaryTable :
        Completed(watchers.quest_list, q) =>
            /\ PrimaryTable[q] \in settings => split(watchers, settings)
            /\ ( /\ PrimaryTable[q] \notin settings
                 /\ ~end_trigger_split(watchers, settings)
                 /\ ~post_eating_split(watchers, settings)
                 /\ ~quest_split(watchers.quest_secondary_list, SecondaryTable, settings)
                 /\ ~\E q2 \in DOMAIN PrimaryTable \ {q} :
                        PrimaryTable[q2] \in settings /\ Completed(watchers.quest_list, q2) )
               => ~split(watchers, settings)

C4_Witness ==
    /\ Completed(watchers.quest_list, 49)
    /\ "pose_for_beetle" \notin settings
    /\ ~split(watchers, settings)
    /\ Len(watchers.quest_list[1].current) = 2
    /\ watchers.quest_list[1].current[1].quest_id = 5

\* an element of the current snapshot of collection c whose toggle is enabled,
\* that is complete, and whose id satisfies before(old snapshot, id)
EnabledComplete(c, k) ==
    /\ split_setting(c.table, c.w[1].current[k].quest_id, settings)
    /\ c.w[1].current[k].complete

\* C5 as stated: an enabled element that is complete in the current snapshot
\* makes split() true when its id was not complete in the old snapshot or had no
\* record there.
C5_Original ==
    \A c \in Collections :
        c.w # None =>
            \A k \in 1..Len(c.w[1].current) :
                ( /\ EnabledComplete(c, k)
                  /\ \/ Holds(c.w[1].old, c.w[1].current[k].quest_id, FALSE)
                     \/ Absent(c.w[1].old, c.w[1].current[k].quest_id) )
                => split(watchers, settings)

\* the completions that count: enabled, complete now, recorded as not complete before
Counted(c) ==
    c.w # None /\
        \E k \in 1..Len(c.w[1].current) :
            EnabledComplete(c, k) /\ Holds(c.w[1].old, c.w[1].current[k].quest_id, FALSE)

\* C5 (amended): an enabled element that is complete in the current snapshot
\* makes split() true when the old snapshot records its id as not complete; an
\* id with no record in the old snapshot does not: without such a recorded
\* completion and without the end and eat conditions split() is false.
C5_SplitOnRecordedCompletion ==
    /\ \A c \in Collections : Counted(c) => split(watchers, settings)
    /\ ( /\ \A c \in Collections : ~Counted(c)
         /\ ~end_trigger_split(watchers, settings)
         /\ ~post_eating_split(watchers, settings) )
       => ~split(watchers, settings)

C5_Witness ==
    /\ watchers.quest_list # None
    /\ Absent(watchers.quest_list[1].old, 32)
    /\ Holds(watchers.quest_list[1].current, 32, TRUE)
    /\ "find_crow" \in settings
    /\ ~split(watchers, settings)

SinkOps ==
    {"start", "split", "reset", "pause_game_time", "resume_game_time", "set_game_time"}

\* the decision an operation of the timer answers to
Decision(op) ==
    CASE op = "start" -> start(watchers, settings)
      [] op = "split" -> split(watchers, settings)
      [] op = "reset" -> reset(watchers, settings)
      [] op = "pause_game_time" -> is_loading(watchers, settings) = Some(TRUE)
      [] op = "resume_game_time" -> is_loading(watchers, settings) = Some(FALSE)
      [] op = "set_game_time" -> game_time(watchers, settings) # None

\* C6 as stated: a tick invokes each operation of the timer at most once and
\* only when its decision is true or Some.
C6_Original ==
    \A op \in SinkOps : Count(calls, op) <= 1 /\ (Count(calls, op) = 1 => Decision(op))

\* C6 (amended): a tick invokes start, split, reset, resume_game_time and
\* set_game_time at most once each and only when the decision is true or Some;
\* pause_game_time likewise on a tick on which start does not fire, and on the
\* tick on which start fires once right after timer::start whatever is_loading
\* says, and once more when is_loading is Some(true).
C6_SinkCalls ==
    /\ \A op \in SinkOps \ {"pause_game_time"} :
          Count(calls, op) <= 1 /\ (Count(calls, op) = 1 => Decision(op))
    /\ Count(calls, "pause_game_time") =
          (IF Count(calls, "start") = 1 THEN 1 ELSE 0)
          + (IF calls # <<>> /\ Decision("pause_game_time") THEN 1 ELSE 0)

C6_Witness ==
    /\ Count(calls, "start") = 1
    /\ Count(calls, "pause_game_time") = 2

\* C7: reset() is false for every state of the watchers and of the settings,
\* and no tick invokes timer::reset.
C7_NeverReset ==
    ~reset(watchers, settings) /\ Count(calls, "reset") = 0

C7_Witness ==
    /\ Count(calls, "split") = 1
    /\ watchers.is_loading # None /\ watchers.is_loading[1].current

\* C8: is_loading() is Some(b), b being the value last installed in the loading
\* watcher, and Some(false) before its first update.
C8_IsLoadingIsTheCurrentValue ==
    /\ is_loading(watchers, settings) = Some(fed # None /\ fed[1].is_loading)
    /\ watchers.is_loading = None <=> fed = None

C8_Witness ==
    /\ fed # None /\ fed_old # None
    /\ fed[1].is_loading /\ fed_old[1].is_loading
    /\ is_loading(watchers, settings) = Some(TRUE)

\* C9: split() is true when got_home is enabled and the end watcher rose on this
\* tick, and when eat_fish is enabled and the post-eating watcher rose; with its
\* toggle disabled such a rise alone leaves split() false.
C9_EndAndEatSplits ==
    LET quests == \E c \in Collections : quest_split(c.w, c.table, settings)
    IN  /\ ("got_home" \in settings /\ Rose("end_trigger")) => split(watchers, settings)
        /\ ("eat_fish" \in settings /\ Rose("is_post_eating")) => split(watchers, settings)
        /\ ( /\ "got_home" \notin settings /\ Rose("end_trigger")
             /\ ~("eat_fish" \in settings /\ Rose("is_post_eating"))
             /\ ~quests )
           => ~split(watchers, settings)
        /\ ( /\ "eat_fish" \notin settings /\ Rose("is_post_eating")
             /\ ~("got_home" \in settings /\ Rose("end_trigger"))
             /\ ~quests )
           => ~split(watchers, settings)

C9_Witness ==
    /\ "got_home" \notin settings /\ Rose("end_trigger")
    /\ "eat_fish" \in settings /\ ~Rose("is_post_eating")
    /\ fed[1].is_post_eating
    /\ ~split(watchers, settings)

\* C10: the iterator yields the empty sequence when the header read fails, the
\* count is zero, the element-array pointer is null, or the read of the pointer
\* slots fails.
C10_EmptyOnFailure ==
    ( /\ list_out # None
      /\ \/ list_in.header = None
         \/ list_in.header[1].count = 0
         \/ list_in.header[1].data_pointer = "null"
         \/ list_in.header[1].data_pointer = "unmapped"
         \/ list_in.header[1].count > Len(list_in.arr) )
    => list_out[1] = <<>>

C10_Witness ==
    /\ list_out = Some(<<>>)
    /\ list_in.header # None
    /\ list_in.header[1].data_pointer = "array"
    /\ list_in.header[1].count > Len(list_in.arr)
    /\ Len(list_in.arr) > 0
    /\ read(list_in, list_in.arr[1]) # None

\* the slots of the element array a healthy header covers, and those among them
\* whose record read succeeds
Covered == 1..list_in.header[1].count
Readable == {k \in Covered : read(list_in, list_in.arr[k]) # None}

\* C11: with a count n > 0 and a readable pointer array the iterator yields the
\* records of exactly the slots whose read succeeds, in increasing slot order:
\* the j-th record yielded is the record of the j-th readable slot, a slot that
\* fails is dropped alone, and at most n records are yielded.
C11_ReadableSlotsInOrder ==
    ( /\ list_out # None
      /\ list_in.header # None
      /\ list_in.header[1].data_pointer = "array"
      /\ list_in.header[1].count > 0
      /\ list_in.header[1].count <= Len(list_in.arr) )
    => /\ Len(list_out[1]) = Cardinality(Readable)
       /\ Len(list_out[1]) <= list_in.header[1].count
       /\ \A k \in Readable :
             list_out[1][Cardinality({i \in Readable : i <= k})]
                 = read(list_in, list_in.arr[k])[1]

\* count = 3, the second slot corrupted: the first and third records are yielded
C11_Witness ==
    /\ list_in.header = Some([data_pointer |-> "array", count |-> 3])
    /\ list_in.arr = <<1, 0, 2>>
    /\ list_out = Some(<<ObjectAt(1), ObjectAt(2)>>)

\* the element count from which a header is implausible in the model
SaneCount == MaxSlots - 1

\* C12: a header whose count is above the sane bound is treated as empty: the
\* iterator yields nothing.
C12_ImplausibleCountIsEmpty ==
    ( /\ list_out # None
      /\ list_in.header # None
      /\ list_in.header[1].count > SaneCount )
    => list_out[1] = <<>>

\* C13: no tick of the loop aborts: whatever the game holds and whatever offsets
\* the Mono class gives, the loop goes on to the next tick.
C13_NoTickAborts == phase # "aborted"

\* C14: every session begins with unpopulated watchers and with a Memory built
\* by Memory::init from the process just attached to, and a change of session
\* leaves the Settings value as it was.
C14_FreshSession ==
    /\ [](phase = "attached" =>
            /\ process # None
            /\ memory = Some(Memory_init(process[1]))
            /\ fed = None => watchers = DefaultWatchers)
    /\ [][phase' # phase => settings' = settings]_vars

\* a later session (the toggles were changed in an earlier one), attached to the
\* other build, before its first tick
C14_Witness ==
    /\ phase = "attached" /\ fed = None
    /\ process # None /\ process[1] # GameProcess
    /\ memory # None /\ memory[1].scene_manager.address = 2
    /\ settings # DefaultSettings

\* the lowest address of a set of matches
Lowest(as) == CHOOSE a \in as : \A b \in as : a <= b

\* the 32-bit signatures that match somewhere in the module
Matching32 == {k \in 1..Len(Signatures32) : unity.matches[Signatures32[k]] # {}}

\* C15: on a 32-bit module attach decides by the first of SIG_32_1, SIG_32_2,
\* SIG_32_3 that matches anywhere, at its lowest match; on a 64-bit module by the
\* lowest match of SIG_64_BIT; with no match it returns None.
C15_SignaturePriority ==
    (scene_manager # None /\ unity.module /\ unity.machine # None) =>
        LET result == scene_manager[1]
        IN  IF unity.machine[1] = "X86_64"
            THEN IF unity.matches["SIG_64_BIT"] = {} THEN result = None
                 ELSE LET addr == Lowest(unity.matches["SIG_64_BIT"]) + 7
                      IN  /\ result # None =>
                                result[1].address = PointerAt(addr + 4 + OperandAt(addr))
                          /\ result = None <=>
                                (addr \in unity.unreadable \/ unity.manager # "ok")
            ELSE IF Matching32 = {} THEN result = None
                 ELSE LET k == Lowest(Matching32)
                          sig == Signatures32[k]
                          at == Operand32(sig, Lowest(unity.matches[sig]))
                      IN  /\ result # None => result[1].address = PointerAt(OperandAt(at))
                          /\ result = None <=>
                                (at \in unity.unreadable \/ unity.manager # "ok")

\* SIG_32_1 matches nowhere, SIG_32_2 and SIG_32_3 match twice: the lower match of
\* SIG_32_2 is used
C15_Witness ==
    /\ unity.machine = Some("I386")
    /\ unity.matches["SIG_32_1"] = {}
    /\ unity.matches["SIG_32_2"] = {10, 20}
    /\ unity.matches["SIG_32_3"] = {10, 20}
    /\ scene_manager # None /\ scene_manager[1] # None
    /\ scene_manager[1][1].address = PointerAt(OperandAt(6))

\* the base address attach computes for the image
BaseOf(img) ==
    IF img.machine = Some("X86_64") THEN base_address_64(img)
    ELSE base_address_32(img, Signatures32, 1)

\* C16: attach reads the pointer at the base address once; it returns None when
\* that read fails or gives null, so a scene manager that is held has a non-null
\* address, the pointer stored at the base address, and a scene query leaves the
\* scene manager as it is.
C16_DereferencedOnceNeverNull ==
    /\ []((scene_manager # None /\ unity.module /\ unity.machine # None
           /\ BaseOf(unity) # None) =>
              /\ unity.manager \in {"fail", "null"} => scene_manager[1] = None
              /\ scene_manager[1] # None =>
                    /\ scene_manager[1][1].address # 0
                    /\ scene_manager[1][1].address = PointerAt(BaseOf(unity)[1]))
    /\ [][scene_manager # None => scene_manager' = scene_manager]_vars

\* a scene manager is held and was asked for the scene
C16_Witness ==
    /\ scene_manager # None /\ scene_manager[1] # None
    /\ scene_manager[1][1].address # 0
    /\ scene_path # None /\ scene_path[1] # None

\* C17: the scene is read anew on every tick: with the active-scene pointer null
\* or unreadable the path is None, the tick completes, the start trigger is fed
\* false and the loading value is what the two flags alone give; with the pointer
\* set the path is the one the game holds on this tick.
C17_NoSceneThisTick ==
    (mem # None /\ phase = "attached") =>
        LET g == mem[1].scene_image
        IN  /\ g.active \in {"fail", "null"} =>
                  /\ mem[1].scene = None
                  /\ ~fed[1].start_trigger
                  /\ watchers.start_trigger # None /\ ~watchers.start_trigger[1].current
                  /\ Count(calls, "start") = 0
                  /\ fed[1].is_loading =
                        (FlagIsSet(mem[1].is_loading_save) \/ FlagIsSet(mem[1].is_teleporting))
                  /\ watchers.is_loading[1].current = fed[1].is_loading
            /\ g.active = "ok" => mem[1].scene = g.path

\* the pointer is null on the tick the shake flag rises, the game still holding
\* the path of Level_X: no start; the tick before, the scene was Loading
C17_Witness ==
    /\ mem # None /\ phase = "attached"
    /\ mem[1].scene_image = [active |-> "null", path |-> ScenePath("Level_X")]
    /\ Rose("allow_player_shake")
    /\ fed_old[1].is_loading /\ ~fed[1].is_loading
    /\ "start" \in settings /\ timer_state = "NotRunning"
    /\ calls = <<>>

\* the pointers of the graph on the way to the leaf
RootSet == heap.root # None /\ heap.root # Some(0)
ElementSet == RootSet /\ heap.coll[heap.root[1]] # 0

\* C18: over the 3-level graph deref returns the leaf the graph holds when the
\* offsets are resolved and both pointers on the way are set; it returns the
\* absent outcome when the static slot or the collection element is null, and the
\* caller then takes the flag as false.
C18_LeafOrAbsent ==
    deref_out # None =>
        /\ (unity_pointer # None /\ ElementSet) =>
              deref_out[1] = Some(heap.leaf[heap.coll[heap.root[1]]])
        /\ (heap.root = Some(0) \/ (RootSet /\ heap.coll[heap.root[1]] = 0)) =>
              /\ deref_out[1] = None
              /\ ~FlagIsSet(deref_out[1])
        /\ unity_pointer = None => deref_out[1] = None

\* the collection element is null while the object at the other end of the stale
\* copy holds a set flag: the deref is absent
C18_Witness ==
    /\ deref_out = Some(None)
    /\ unity_pointer # None
    /\ heap.root = Some(10) /\ heap.coll[10] = 0
    /\ heap.coll[20] = 30 /\ heap.leaf[30] = 1

\* C19: only offsets are cached: the chain kept holds the offsets of the segments
\* and no address, and a deref returns what the graph holds now at the end of the
\* pointers as they are now, wherever the deref before read.
C19_RewalkedEveryCall ==
    /\ unity_pointer # None =>
          unity_pointer[1] = <<FieldOffset("items"), ElementOffset(1), FieldOffset("value")>>
    /\ (deref_out # None /\ unity_pointer # None) =>
          /\ walked.current[1] = StaticBase + FieldOffset("items")
          /\ deref_out[1] = IF ElementSet THEN Some(heap.leaf[heap.coll[heap.root[1]]])
                            ELSE None

\* the deref before went through the collection at 10 and the object at 30; both
\* were moved, the old bytes still hold the other value, and the new value is read
C19_Witness ==
    /\ deref_out = Some(Some(1))
    /\ walked.old = <<3, 15, 31>>
    /\ walked.current = <<3, 25, 41>>
    /\ heap.coll[10] = 30 /\ heap.leaf[30] = 0

\* C20: the toggles are read at the start of the tick: on a tick before which the
\* host changed a toggle, start() and split() answer with the changed value. With
\* the timer not running timer::start is called exactly when start() holds of the
\* toggles as they are now, and with the timer running or paused timer::split is
\* called exactly when split() does.
C20_TogglesReadEveryTick ==
    [][(phase = "attached" /\ phase' = "attached" /\ settings' # settings) =>
          /\ timer_state = "NotRunning" =>
                (Count(calls', "start") = 1 <=> start(watchers', settings'))
          /\ timer_state \in {"Running", "Paused"} =>
                (Count(calls', "split") = 1 <=> split(watchers', settings'))]_vars

\* the start toggle was turned off by the host (it is on when registered): the
\* start trigger rose on this tick and timer::start was not called
C20_Witness ==
    /\ phase = "attached" /\ fed # None
    /\ "start" \notin settings /\ "eat_fish" \in settings
    /\ PairChangedTo(watchers.start_trigger, TRUE)
    /\ timer_state = "NotRunning"
    /\ calls = <<>>

\* C21: game_time() is None whatever the watchers and the settings hold, and no
\* tick invokes timer::set_game_time.
C21_NoGameTime ==
    game_time(watchers, settings) = None /\ Count(calls, "set_game_time") = 0

\* a tick with the timer running, on which the block that asks game_time ran
C21_Witness ==
    /\ fed # None /\ timer_state = "Running"
    /\ calls # <<>> /\ calls[1] \in {"pause_game_time", "resume_game_time"}
    /\ Count(calls, "split") = 1

\* the displacement that the module holds at address x
DisplacementAt(x) ==
    (CHOOSE d \in Displacements : d.bytes = unity.stored[x]).value

\* C22: on a 64-bit module the base address is (match + 4) + 7 + disp32, the
\* address of the instruction after the one matched plus the signed displacement
\* stored in its last four bytes, a negative displacement included: a scene
\* manager that is held has the pointer stored there.
C22_Base64 ==
    (scene_manager # None /\ scene_manager[1] # None /\ unity.machine = Some("X86_64")) =>
        LET match == Lowest(unity.matches["SIG_64_BIT"])
            disp32 == DisplacementAt(match + 7)
        IN  scene_manager[1][1].address = PointerAt((match + 4) + 7 + disp32)

\* the match at 20 with the displacement -16: the base address is 15
C22_Witness ==
    /\ unity.machine = Some("X86_64")
    /\ unity.matches["SIG_64_BIT"] = {20}
    /\ 27 \in DOMAIN unity.stored /\ unity.stored[27] = <<240, 255, 255, 255>>
    /\ scene_manager # None /\ scene_manager[1] # None
    /\ scene_manager[1][1].address = PointerAt(15)

\* a step of the main loop that ran to next_tick
TickStep ==
    /\ phase = "attached" /\ phase' = "attached"
    /\ <<settings, watchers, mem, calls, fed, fed_old>>' # <<settings, watchers, mem, calls, fed, fed_old>>

GameTimeCalls == {"pause_game_time", "resume_game_time"}

\* the calls of the block guarded by Running or Paused, in the order of the code
RunningBlocks ==
    {<<g>> \o t \o r :
        g \in GameTimeCalls,
        t \in {<<>>, <<"set_game_time">>},
        r \in {<<>>, <<"reset">>, <<"split">>}}

\* the calls of the block guarded by NotRunning and start()
StartBlocks == {<<"start", "pause_game_time", g>> : g \in GameTimeCalls}

\* C23: the calls of a tick are those of the Running/Paused block (is_loading,
\* game_time, then reset or else split), made only when the tick began Running or
\* Paused and with the watchers and toggles updated on this tick, followed by
\* those of the start block, made only when the timer is NotRunning after the
\* first block; no split on a tick that began NotRunning, no start on a tick
\* that began Running, Paused or Ended.
C23_OrderWithinTick ==
    [][TickStep =>
        /\ timer_state \in {"Running", "Paused"} =>
              \E a \in RunningBlocks, b \in StartBlocks \cup {<<>>} :
                  /\ calls' = a \o b
                  /\ b # <<>> => Count(a, "reset") = 1
                  /\ Count(a, "reset") = 1 <=> reset(watchers', settings')
                  /\ Count(a, "split") = 1 <=>
                        (~reset(watchers', settings') /\ split(watchers', settings'))
        /\ timer_state \notin {"Running", "Paused"} =>
              /\ calls' \in StartBlocks \cup {<<>>}
              /\ calls' # <<>> <=> (timer_state = "NotRunning" /\ start(watchers', settings'))
        /\ timer_state = "NotRunning" => Count(calls', "split") = 0
        /\ timer_state \in {"Running", "Paused", "Ended"} => Count(calls', "start") = 0
    ]_vars

\* a tick that began NotRunning on which start() and split() are both true: the
\* run is started and no split is made
C23_Witness ==
    /\ Ticked /\ calls # <<>> /\ calls[1] = "start"
    /\ split(watchers, settings)
    /\ Count(calls, "split") = 0

\* the scene path read on the last tick names the scene `name`
SceneReadIs(name) == mem # None /\ mem[1].scene = ScenePath(name)

\* C24: start() is true on a tick only if auto-start is enabled, the scene read
\* on that tick is Level_X and the shake flag rose from false to true since the
\* tick before; and on a tick that finds the shake flag true as the tick before
\* did, start() is false, the scene being Level_X now or not.
C24_StartOnlyOnEntry ==
    /\ []((Ticked /\ start(watchers, settings)) =>
              /\ "start" \in settings
              /\ SceneReadIs("Level_X")
              /\ Rose("allow_player_shake"))
    /\ [][(TickStep /\ fed # None /\ fed[1].allow_player_shake
                    /\ fed'[1].allow_player_shake) =>
              ~start(watchers', settings')]_vars

\* the shake flag was already true on the tick before, the scene read now is
\* Level_X and auto-start is enabled: no start
C24_Witness ==
    /\ fed # None /\ fed_old # None
    /\ fed_old[1].allow_player_shake /\ ~fed_old[1].start_trigger
    /\ fed[1].allow_player_shake
    /\ SceneReadIs("Level_X")
    /\ "start" \in settings
    /\ timer_state = "NotRunning"
    /\ calls = <<>>

\* the byte read on the last tick for a flag is not zero
ReadNonZero(flag) == mem[1][flag] # None /\ mem[1][flag][1] # 0

\* C25: the value the loading watcher holds after a tick is true iff the scene
\* read on that tick is Loading or MainMenu_LKBC, or the _isLoading byte of the
\* save system is not zero, or the isTeleporting byte of the player is not zero;
\* with the scene and both flags unreadable it is false.
C25_LoadingValue ==
    Ticked =>
        /\ watchers.is_loading # None
        /\ watchers.is_loading[1].current =
              ( \/ SceneReadIs("Loading")
                \/ SceneReadIs("MainMenu_LKBC")
                \/ ReadNonZero("is_loading_save")
                \/ ReadNonZero("is_teleporting") )
        /\ (mem[1].scene = None /\ mem[1].is_loading_save = None
                                /\ mem[1].is_teleporting = None) =>
              ~watchers.is_loading[1].current

\* in a level, the save system is loading (the byte is 2) and the flag of the
\* player is unreadable
C25_Witness ==
    /\ Ticked
    /\ SceneReadIs("Level_X")
    /\ mem[1].is_loading_save = Some(2)
    /\ mem[1].is_teleporting = None
    /\ watchers.is_loading # None /\ watchers.is_loading[1].current

\* C26: each list is matched against its own table. With records of id 32 (in
\* both tables) and of id 5 (in neither) in the two lists, split() is true iff
\* find_crow is enabled and id 32 completed in the primary list, or to_me_to_you
\* is enabled and id 32 completed in the secondary list: the toggle of the other
\* table has no effect, and a completion of id 5 never splits.
C26_OwnTable ==
    Ticked =>
        ( split(watchers, settings) <=>
            \/ "find_crow" \in settings /\ Completed(watchers.quest_list, 32)
            \/ "to_me_to_you" \in settings /\ Completed(watchers.quest_secondary_list, 32) )

\* id 32 completed in the secondary list alone, with find_crow enabled and
\* to_me_to_you disabled, next to a completion of id 5 in the primary list: no split
C26_Witness ==
    /\ Ticked
    /\ Completed(watchers.quest_secondary_list, 32)
    /\ Completed(watchers.quest_list, 5)
    /\ "find_crow" \in settings /\ "to_me_to_you" \notin settings
    /\ ~split(watchers, settings)
    /\ Count(calls, "split") = 0

\* the watcher w holds a change from false to true
Risen(w) == w # None /\ ~w[1].old /\ w[1].current

\* the toggles of the enabled split conditions that became true with the update
\* that left the watchers w
TrueConditions(w, s) ==
    {t \in {"got_home"} \cap s : Risen(w.end_trigger)}
    \cup {t \in {"eat_fish"} \cap s : Risen(w.is_post_eating)}
    \cup {PrimaryTable[id] : id \in {q \in DOMAIN PrimaryTable :
              PrimaryTable[q] \in s /\ Completed(w.quest_list, q)}}
    \cup {SecondaryTable[id] : id \in {q \in DOMAIN SecondaryTable :
              SecondaryTable[q] \in s /\ Completed(w.quest_secondary_list, q)}}

RECURSIVE GameTimeOf(_)
GameTimeOf(cs) ==
    IF cs = <<>> THEN <<>>
    ELSE (IF Head(cs) \in GameTimeCalls THEN <<Head(cs)>> ELSE <<>>) \o GameTimeOf(Tail(cs))

\* the game time is paused after the calls cs
PausedAfter(cs) == LET g == GameTimeOf(cs) IN g[Len(g)] = "pause_game_time"

\* C28: on every tick that begins with the timer Running or Paused exactly one of
\* pause_game_time and resume_game_time is invoked, pause when the loading
\* watcher holds true after this tick's update and resume when it holds false:
\* the game time is paused after the tick iff the loading value of the tick is true.
C28_PauseOrResume ==
    [][(TickStep /\ timer_state \in {"Running", "Paused"}) =>
          LET loading == watchers'.is_loading # None /\ watchers'.is_loading[1].current
          IN  /\ Len(GameTimeOf(calls')) = 1
              /\ Count(calls', "pause_game_time") = (IF loading THEN 1 ELSE 0)
              /\ Count(calls', "resume_game_time") = (IF loading THEN 0 ELSE 1)
              /\ PausedAfter(calls') <=> loading
    ]_vars

\* the loading value is false as on the tick before, the timer running: the game
\* time is resumed again
C28_Witness ==
    /\ fed # None /\ fed_old # None
    /\ ~fed[1].is_loading /\ ~fed_old[1].is_loading
    /\ timer_state = "Running"
    /\ GameTimeOf(calls) = <<"resume_game_time">>
    /\ Count(calls, "start") = 0

\* C29: on a tick on which start fires the calls are timer::start, then
\* timer::pause_game_time, then pause_game_time when the loading watcher holds
\* true and resume_game_time when it holds false, and nothing else: the last
\* game-time call is a pause iff the loading value is true, and there is no
\* split and no reset.
C29_StartTick ==
    Count(calls, "start") >= 1 =>
        LET loading == watchers.is_loading # None /\ watchers.is_loading[1].current
        IN  /\ calls = <<"start", "pause_game_time",
                         IF loading THEN "pause_game_time" ELSE "resume_game_time">>
            /\ PausedAfter(calls) <=> loading
            /\ Count(calls, "split") = 0 /\ Count(calls, "reset") = 0

\* the run starts outside a loading screen, on a tick on which split() is true
C29_Witness ==
    /\ calls = <<"start", "pause_game_time", "resume_game_time">>
    /\ watchers.is_loading # None /\ ~watchers.is_loading[1].current
    /\ split(watchers, settings)

C31_FailedReadIsFalse ==
    /\ []((Ticked /\ mem[1].post_eat = None) =>
              /\ ~fed[1].is_post_eating
              /\ watchers.is_post_eating # None /\ ~watchers.is_post_eating[1].current)
    /\ [][(/\ TickStep
           /\ fed_old # None /\ fed_old[1].is_post_eating
           /\ mem # None /\ mem[1].post_eat = None
           /\ mem'[1].post_eat = Some(1)) =>
              /\ fed'[1].is_post_eating /\ ~fed_old'[1].is_post_eating
              /\ watchers'.is_post_eating = Some([old |-> FALSE, current |-> TRUE])
              /\ ("eat_fish" \in settings' /\ timer_state \in {"Running", "Paused"}) =>
                    Count(calls', "split") = 1]_vars

\* the flag of the game is true throughout: it reads true after a tick on which
\* the watcher was fed false, and the tick splits
C31_Witness ==
    /\ fed # None /\ fed_old # None
    /\ ~fed_old[1].is_post_eating /\ fed[1].is_post_eating
    /\ mem[1].post_eat = Some(1)
    /\ "eat_fish" \in settings
    /\ Count(calls, "split") = 1

====
